---- MODULE Spec2Model ----
(***************************************************************************)
(* Model of read_iter::ReadIter<T> (src/src/lib.rs): a wrapper around an   *)
(* io::Read source with a fixed internal buffer, exposing Iterator<u8>,    *)
(* io::Read and io::BufRead over the shared fields buffer / len / i.       *)
(*                                                                         *)
(* Rust slices are 0-based and half-open; TLA+ sequences are 1-based.      *)
(* buffer[j] in the source is buffer[j+1] here, and buffer[lo .. hi] is    *)
(* Slice(buffer, lo, hi).                                                  *)
(***************************************************************************)
EXTENDS Integers, Sequences, FiniteSets, TLC

\* lib.rs:33 - the capacity of the internal buffer.  The source sets 4*1024;
\* the model scales it down so that a source read can fill the whole buffer.
BUFFER_SIZE == 3

\* Longest source byte sequence explored.
MaxLen == 4
\* Largest caller buffer passed to read().
MaxBuf == 2
\* Distinct errors the source may report.
Errors == {"E1", "E2"}
\* Option::None for err.
NoErr == "none"

VARIABLES
    reader,   \* lib.rs:38  the wrapped source: its byte sequence and position
    err,      \* lib.rs:39  Option<io::Error>
    buffer,   \* lib.rs:40  [u8; BUFFER_SIZE]
    len,      \* lib.rs:41
    i,        \* lib.rs:42
    ret,      \* what the most recent call returned to its caller
    out,      \* bytes the consumer has taken so far, in call order
    peek,     \* the part of the last fill_buf view the caller has not consumed
    used,     \* which of the three reading interfaces have been called
    srcFailed, \* some source read has failed since construction
    pending   \* the errors of next's failed source reads since the last
              \* take_last_error: all of them, and the most recent one

vars == <<reader, err, buffer, len, i, ret, out, peek, used, srcFailed, pending>>

Min(a, b) == IF a < b THEN a ELSE b

\* The byte sequences a source may hold.  ReadIter never inspects a byte, so
\* a sequence of pairwise distinct bytes shows every loss, duplication and
\* reordering; the sequences of zeros repeat the value the buffer starts
\* with (lib.rs:50).
Sources ==
    {[k \in 1..n |-> k] : n \in 0..MaxLen} \cup {[k \in 1..n |-> 0] : n \in 0..MaxLen}

\* Rust's b[lo .. hi] (callers establish lo <= hi <= Len(b)).
Slice(b, lo, hi) == SubSeq(b, lo + 1, hi)

IsPrefix(p, s) == Len(p) <= Len(s) /\ SubSeq(s, 1, Len(p)) = p

\* The bytes the source has not delivered yet.
Remaining == Len(reader.data) - reader.pos

\* No source read happened in the call.
NoRead == [kind |-> "noread", n |-> 0, e |-> NoErr]

\* The possible results of one reader.read(buf) with buf.len() = cap:
\* Err(e), or Ok(n) with 0 < n <= cap bytes of a partial read, or Ok(0) at
\* the end of the stream (or for an empty buf).
SrcOutcomes(cap) ==
    {[kind |-> "err", n |-> 0, e |-> e] : e \in Errors}
    \cup
    (IF Min(cap, Remaining) = 0
        THEN {[kind |-> "ok", n |-> 0, e |-> NoErr]}
        ELSE {[kind |-> "ok", n |-> n, e |-> NoErr] : n \in 1..Min(cap, Remaining)})

\* The bytes an Ok(n) source read delivers.
SrcBytes(n) == SubSeq(reader.data, reader.pos + 1, reader.pos + n)

\* The source after a read with result r.
SrcAfter(r) == [reader EXCEPT !.pos = @ + r.n]

\* self.buffer after reader.read(&mut self.buffer) returned r.
BufferAfter(r) ==
    [k \in 1..BUFFER_SIZE |->
        IF k <= r.n THEN reader.data[reader.pos + k] ELSE buffer[k]]

\* The value a call hands back to its caller, before the method fills it in:
\* op is the method, kind the outcome, n a count, bytes the bytes delivered
\* (or the view), e an error, lo the Rust index of the first byte taken from
\* the buffer, cap the length of the caller's buffer, src the source read the
\* call made.  prev is the method and outcome of the call before, kept for
\* take_last_error and consume, whose contracts speak of the preceding call.
Base(op) ==
    [op |-> op,
     prev |-> IF op \in {"take_last_error", "consume"}
                 THEN <<ret.op, ret.kind>> ELSE <<>>,
     kind |-> "unit", n |-> 0, bytes |-> <<>>,
     e |-> NoErr, lo |-> 0, cap |-> 0, src |-> NoRead]

\* No failed source read of next is waiting for take_last_error.
NoPending == [all |-> {}, last |-> NoErr]

\* The thread has not panicked.
Running == ret.kind # "panic"

\* lib.rs:46-54  ReadIter::new
Init ==
    /\ reader \in {[data |-> s, pos |-> 0] : s \in Sources}
    /\ err = NoErr
    /\ buffer = [k \in 1..BUFFER_SIZE |-> 0]
    /\ len = 0
    /\ i = 0
    /\ ret = [op |-> "new", prev |-> <<>>, kind |-> "unit", n |-> 0,
              bytes |-> <<>>, e |-> NoErr, lo |-> 0, cap |-> 0, src |-> NoRead]
    /\ out = <<>>
    /\ peek = <<>>
    /\ used = {}
    /\ srcFailed = FALSE
    /\ pending = NoPending

last_error_take ==
    /\ Running
    /\ ret' = [Base("last_error") EXCEPT
                  !.kind = IF err = NoErr THEN "none" ELSE "some", !.e = err]
    /\ err' = NoErr
    /\ UNCHANGED <<reader, buffer, len, i, out, peek, used, srcFailed, pending>>

\* lib.rs:62-64  ReadIter::last_error
last_error ==
    /\ Running
    /\ ret' = [Base("last_error") EXCEPT
                  !.kind = IF err = NoErr THEN "none" ELSE "some", !.e = err]
    /\ UNCHANGED <<reader, err, buffer, len, i, out, peek, used, srcFailed, pending>>

take_last_error_keep ==
    /\ Running
    /\ ret' = [Base("take_last_error") EXCEPT
                  !.kind = IF err = NoErr THEN "ok" ELSE "err", !.e = err]
    /\ pending' = NoPending
    /\ UNCHANGED <<reader, err, buffer, len, i, out, peek, used, srcFailed>>

\* lib.rs:72-77  ReadIter::take_last_error
take_last_error ==
    /\ Running
    /\ ret' = [Base("take_last_error") EXCEPT
                  !.kind = IF err = NoErr THEN "ok" ELSE "err", !.e = err]
    /\ err' = NoErr
    /\ pending' = NoPending
    /\ UNCHANGED <<reader, buffer, len, i, out, peek, used, srcFailed>>

NextHasBuffered_le == i <= len

\* lib.rs:84  the test that selects next's buffered branch
NextHasBuffered == i < len

StoredErr_first(e) == IF err # NoErr THEN err ELSE e

\* lib.rs:92  what next stores in err when the source read failed with e
StoredErr(e) == e

AfterIterFill_zero(n) == [len |-> n, i |-> 0]

AfterIterFill_step(n) == [len |-> n, i |-> i + 1]

\* lib.rs:99-100  len and i after next refilled the buffer with n bytes
AfterIterFill(n) == [len |-> n, i |-> 1]

\* lib.rs:83-105  <&mut ReadIter as Iterator>::next
next ==
    /\ Running
    /\ used' = used \cup {"next"}
    /\ peek' = <<>>
    /\ IF NextHasBuffered
          THEN /\ i' = i + 1
               /\ ret' = [Base("next") EXCEPT !.kind = "some", !.n = 1,
                             !.bytes = <<buffer[i + 1]>>, !.lo = i]
               /\ out' = Append(out, buffer[i + 1])
               /\ UNCHANGED <<reader, err, buffer, len, srcFailed, pending>>
          ELSE \E r \in SrcOutcomes(BUFFER_SIZE) :
               /\ reader' = SrcAfter(r)
               /\ buffer' = BufferAfter(r)
               /\ srcFailed' = (srcFailed \/ r.kind = "err")
               /\ pending' = IF r.kind = "err"
                                THEN [all |-> pending.all \cup {r.e}, last |-> r.e]
                                ELSE pending
               /\ IF r.kind = "err"
                     THEN /\ err' = StoredErr(r.e)
                          /\ ret' = [Base("next") EXCEPT !.kind = "none", !.src = r]
                          /\ UNCHANGED <<len, i, out>>
                     ELSE IF r.n = 0
                     THEN /\ ret' = [Base("next") EXCEPT !.kind = "none", !.src = r]
                          /\ UNCHANGED <<err, len, i, out>>
                     ELSE /\ len' = AfterIterFill(r.n).len
                          /\ i' = AfterIterFill(r.n).i
                          /\ ret' = [Base("next") EXCEPT !.kind = "some", !.n = 1,
                                        !.bytes = <<buffer'[1]>>, !.src = r]
                          /\ out' = Append(out, buffer'[1])
                          /\ UNCHANGED err

ReadHasBuffered_le == i <= len

ReadHasBuffered_never == FALSE

\* lib.rs:110  the test that selects read's buffered branch
ReadHasBuffered == i < len

ReadCount_short(b) == Min(b, len - i - 1)

\* lib.rs:111  the number of bytes read copies out of the buffer
ReadCount(b) == Min(b, len - i)

\* lib.rs:109-119  <ReadIter as io::Read>::read, with buf.len() = b
read ==
    /\ Running
    /\ used' = used \cup {"read"}
    /\ peek' = <<>>
    /\ pending' = pending
    /\ \E b \in 0..MaxBuf :
          IF ReadHasBuffered
             THEN LET n == ReadCount(b) IN
                  /\ i' = i + n
                  /\ ret' = [Base("read") EXCEPT !.kind = "ok", !.n = n,
                                !.bytes = Slice(buffer, i, i + n), !.lo = i,
                                !.cap = b]
                  /\ out' = out \o Slice(buffer, i, i + n)
                  /\ UNCHANGED <<reader, err, buffer, len, srcFailed>>
             ELSE \E r \in SrcOutcomes(b) :
                  /\ reader' = SrcAfter(r)
                  /\ srcFailed' = (srcFailed \/ r.kind = "err")
                  /\ ret' = [Base("read") EXCEPT !.kind = r.kind, !.n = r.n,
                                !.bytes = SrcBytes(r.n), !.e = r.e, !.cap = b,
                                !.src = r]
                  /\ out' = out \o SrcBytes(r.n)
                  /\ UNCHANGED <<err, buffer, len, i>>

FillBufExhausted_gt == i > len

\* lib.rs:124  the test that makes fill_buf refill the buffer
FillBufExhausted == i >= len

FillBufFailed_reset == [len |-> 0, i |-> 0, err |-> err]

\* lib.rs:126-128  len, i and err after fill_buf's source read failed
FillBufFailed == [len |-> len, i |-> i, err |-> err]

AfterFill_nolen(n) == [len |-> len, i |-> 0]

\* lib.rs:130-131  len and i after fill_buf refilled the buffer with n bytes
AfterFill(n) == [len |-> n, i |-> 0]

\* lib.rs:135  the end of the slice fill_buf returns, for cursor c and
\* length l
ViewEnd(c, l) == c + l

\* lib.rs:135  fill_buf's result for cursor c, length l and buffer contents
\* b: the slice b[c .. ViewEnd(c, l)], or a panic when it leaves the buffer
FillBufResult(c, l, b, r) ==
    IF ViewEnd(c, l) > BUFFER_SIZE \/ c > ViewEnd(c, l)
       THEN [Base("fill_buf") EXCEPT !.kind = "panic", !.lo = c, !.src = r]
       ELSE [Base("fill_buf") EXCEPT !.kind = "ok", !.n = ViewEnd(c, l) - c,
                !.bytes = Slice(b, c, ViewEnd(c, l)), !.lo = c, !.src = r]

\* lib.rs:123-136  <ReadIter as io::BufRead>::fill_buf
fill_buf ==
    /\ Running
    /\ used' = used \cup {"fill_buf"}
    /\ out' = out
    /\ pending' = pending
    /\ IF FillBufExhausted
          THEN \E r \in SrcOutcomes(BUFFER_SIZE) :
               /\ reader' = SrcAfter(r)
               /\ buffer' = BufferAfter(r)
               /\ srcFailed' = (srcFailed \/ r.kind = "err")
               /\ IF r.kind = "err"
                     THEN /\ ret' = [Base("fill_buf") EXCEPT !.kind = "err",
                                        !.e = r.e, !.lo = i, !.src = r]
                          /\ len' = FillBufFailed.len
                          /\ i' = FillBufFailed.i
                          /\ err' = FillBufFailed.err
                     ELSE /\ len' = AfterFill(r.n).len
                          /\ i' = AfterFill(r.n).i
                          /\ err' = err
                          /\ ret' = FillBufResult(i', len', buffer', r)
          ELSE /\ UNCHANGED <<reader, err, buffer, len, i, srcFailed>>
               /\ ret' = FillBufResult(i, len, buffer, NoRead)
    /\ peek' = ret'.bytes

\* lib.rs:138-140  <ReadIter as io::BufRead>::consume, with an amount no
\* larger than what is left of the view the last fill_buf returned
consume ==
    /\ Running
    /\ used' = used \cup {"fill_buf"}
    /\ \E amt \in 0..Len(peek) :
          /\ i' = i + amt
          /\ out' = out \o SubSeq(peek, 1, amt)
          /\ peek' = SubSeq(peek, amt + 1, Len(peek))
          /\ ret' = [Base("consume") EXCEPT !.n = amt,
                        !.bytes = SubSeq(peek, 1, amt), !.lo = i,
                        !.cap = Len(peek)]
    /\ UNCHANGED <<reader, err, buffer, len, srcFailed, pending>>

Next ==
    \/ last_error
    \/ take_last_error
    \/ next
    \/ read
    \/ fill_buf
    \/ consume

Spec == Init /\ [][Next]_vars

\* C1: over a source that never fails, with only Iterator::next used, the
\* bytes yielded so far are a prefix of the source's sequence, each Some(b)
\* is the next byte of it, next returns None only once all of it has been
\* yielded, and take_last_error returns Ok(()).
C1_IterYieldsAll ==
    (used \subseteq {"next"} /\ ~srcFailed) =>
        /\ IsPrefix(out, reader.data)
        /\ (ret.op = "next" /\ ret.kind = "some"
               => ret.bytes = <<reader.data[Len(out)]>>)
        /\ (ret.op = "next" /\ ret.kind = "none" => out = reader.data)
        /\ (ret.op = "take_last_error" => ret.kind = "ok")

\* Iteration over a sequence longer than the buffer has ended with None and
\* take_last_error was called after it.
C1_Witness ==
    /\ used = {"next"} /\ ~srcFailed
    /\ ret.op = "take_last_error" /\ ret.kind = "ok"
    /\ ret.prev = <<"next", "none">>
    /\ Len(reader.data) > BUFFER_SIZE
    /\ out = reader.data
    /\ i > 0 /\ i = len /\ len < BUFFER_SIZE

\* C2: over a source that never fails, with only read used, the bytes
\* returned so far are a prefix of the source's sequence, every call returns
\* at most buf.len() bytes, and a call with a non-empty buf returns 0 only
\* once the whole sequence has been returned.
C2_ReadReconstructs ==
    (used \subseteq {"read"} /\ ~srcFailed) =>
        /\ IsPrefix(out, reader.data)
        /\ (ret.op = "read" =>
               /\ ret.kind = "ok"
               /\ ret.n <= ret.cap
               /\ Len(ret.bytes) = ret.n
               /\ (ret.n = 0 /\ ret.cap > 0 => out = reader.data))

\* A read loop over a sequence that needs several partial reads has ended
\* with a zero-byte result.
C2_Witness ==
    /\ used = {"read"} /\ ~srcFailed
    /\ ret.op = "read" /\ ret.kind = "ok" /\ ret.n = 0 /\ ret.cap > 0
    /\ Len(reader.data) = MaxLen
    /\ out = reader.data
\* C3 (as claimed): with fill_buf/consume and read mixed on one instance,
\* the bytes consumed from the peeked views and the bytes returned by read,
\* in call order, are a prefix of the source's sequence.
C3_PeekAndReadPrefix ==
    used \subseteq {"read", "fill_buf"} => IsPrefix(out, reader.data)

\* C4 (as claimed): the view a successful fill_buf returns is exactly
\* buffer[i .. len]: it starts at the cursor and holds len - i bytes.
C4_ViewIsUnreadData ==
    (ret.op = "fill_buf" /\ ret.kind = "ok") =>
        /\ ret.lo = i
        /\ ret.n = len - i
        /\ ret.bytes = Slice(buffer, i, len)

\* C5 (as claimed): cursor <= length <= capacity in every reachable state.
C5_CursorLeLenLeCap == i <= len /\ len <= BUFFER_SIZE

\* C6 (as claimed): consume(k) right after a fill_buf that returned u bytes
\* moves the cursor by k and takes the first k bytes of the view; if k < u
\* the next fill_buf reads nothing from the source and returns a view that
\* starts with the (k+1)-th byte of the previous view.
C6_ConsumeThenFillBuf ==
    [][/\ (ret.op = "fill_buf" /\ ret.kind = "ok" /\ ret'.op = "consume")
           => /\ i' = i + ret'.n
              /\ out' = out \o SubSeq(ret.bytes, 1, ret'.n)
       /\ (/\ ret.op = "consume" /\ ret.prev = <<"fill_buf", "ok">>
           /\ ret.n < ret.cap
           /\ ret'.op = "fill_buf")
           => /\ ret'.kind = "ok"
              /\ ret'.src = NoRead
              /\ ret'.lo = i
              /\ ret'.n > 0
              /\ ret'.bytes[1] = peek[1]]_vars

\* C7 (as claimed): a failing source read of next makes the call return None
\* and store its error E, the next take_last_error returns Err(E) for every
\* such E and clears err, and a take_last_error right after it returns Ok.
C7_TakeReturnsEachError ==
    [][/\ (ret'.op = "next" /\ ret'.src.kind = "err")
           => (ret'.kind = "none" /\ err' = ret'.src.e)
       /\ ret'.op = "take_last_error"
           => /\ \A e \in pending.all : ret'.kind = "err" /\ ret'.e = e
              /\ err' = NoErr
              /\ (ret.op = "take_last_error" => ret'.kind = "ok")]_vars

\* C7 (amended): a failing source read of next makes the call return None
\* and store its error; take_last_error returns Err of the most recent such
\* error since the last take_last_error (Ok if there is none) and clears
\* err, and a take_last_error right after it returns Ok.
C7_TakeReturnsLatestError ==
    [][/\ (ret'.op = "next" /\ ret'.src.kind = "err")
           => (ret'.kind = "none" /\ err' = ret'.src.e)
       /\ ret'.op = "take_last_error"
           => /\ ret'.e = pending.last
              /\ ret'.kind = (IF pending.last = NoErr THEN "ok" ELSE "err")
              /\ err' = NoErr
              /\ (ret.op = "take_last_error" => ret'.kind = "ok")]_vars

\* next stored a source error and the take_last_error right after it
\* returned that error and cleared err.
C7_Witness ==
    /\ ret.op = "take_last_error" /\ ret.prev = <<"next", "none">>
    /\ ret.kind = "err" /\ ret.e \in Errors
    /\ err = NoErr /\ pending = NoPending
    /\ used = {"next"}

\* C8 (as claimed): err, once it holds an error, changes only through
\* take_last_error.
C8_ErrNeverOverwritten ==
    [][(err # NoErr /\ err' # err) => ret'.op = "take_last_error"]_vars

\* C8 (amended): err changes only through take_last_error, which clears it,
\* or through a next whose source read failed, which always stores that
\* newest error, replacing an unread one.
C8_ErrHoldsNewest ==
    [][/\ err' # err
           => \/ (ret'.op = "take_last_error" /\ err' = NoErr)
              \/ (ret'.op = "next" /\ ret'.src.kind = "err")
       /\ (ret'.op = "next" /\ ret'.src.kind = "err") => err' = ret'.src.e]_vars

\* next has failed twice with different errors and no take_last_error in
\* between; err holds the second.
C8_Witness ==
    /\ pending.all = Errors
    /\ ret.op = "next" /\ ret.src.kind = "err"
    /\ err = ret.src.e /\ err = pending.last

\* C9 (as claimed): a next that follows a next that returned None returns
\* None too.
C9_NoneIsSticky ==
    [][(ret.op = "next" /\ ret.kind = "none" /\ ret'.op = "next")
           => ret'.kind = "none"]_vars

\* C9 (amended): after next returned None the buffer is still exhausted, it
\* stays exhausted until next, read or fill_buf is called, and a next on an
\* exhausted buffer issues a new source read and returns None exactly when
\* that read fails or returns 0 bytes, Some of its first byte otherwise.
C9_NoneUntilSourceDelivers ==
    [][/\ (ret'.op = "next" /\ ret'.kind = "none")
           => (i' >= len' /\ ret'.src # NoRead)
       /\ (i >= len /\ ret'.op \notin {"next", "read", "fill_buf"})
           => i' >= len'
       /\ (i >= len /\ ret'.op = "next")
           => /\ ret'.src # NoRead
              /\ (ret'.kind = "none")
                     <=> (ret'.src.kind = "err" \/ ret'.src.n = 0)
              /\ ret'.kind = "some"
                     => ret'.bytes = <<reader.data[reader.pos + 1]>>]_vars

\* next returned None on a failed source read and, with no read, fill_buf
\* or take_last_error in between, a later next returned the first byte.
C9_Witness ==
    /\ ret.op = "next" /\ ret.kind = "some"
    /\ ret.src.kind = "ok"
    /\ pending.last # NoErr
    /\ out = <<reader.data[1]>>
    /\ used = {"next"}

\* C10: a failed source read of read or fill_buf is returned to the caller
\* as Err of the source's error and leaves err, i and len as they were; only
\* next ever stores an error in err.
C10_ReadErrorsPropagate ==
    [][/\ (ret'.op \in {"read", "fill_buf"} /\ ret'.src.kind = "err")
           => /\ ret'.kind = "err"
              /\ ret'.e = ret'.src.e
              /\ err' = err /\ i' = i /\ len' = len
       /\ (err' # err /\ err' # NoErr) => ret'.op = "next"]_vars

\* fill_buf has returned the source's error with unread state left behind
\* by the iterator, and err holds no error.
C10_Witness ==
    /\ ret.op = "fill_buf" /\ ret.kind = "err" /\ ret.e \in Errors
    /\ err = NoErr
    /\ i = len /\ len > 0

\* C11: last_error changes no field of the wrapper, and it returns Some
\* exactly when a source read of next has failed since construction or since
\* the last take_last_error (so None after a clean end of stream); the error
\* it shows is the stored one.
C11_LastErrorObserves ==
    [][ret'.op = "last_error"
           => /\ UNCHANGED <<reader, err, buffer, len, i>>
              /\ (ret'.kind = "some") <=> (pending.all # {})
              /\ (ret'.kind = "none") <=> (pending.all = {})
              /\ ret'.e = err]_vars

\* last_error shows the error of a failed next, after an iteration that
\* yielded bytes, and leaves it stored.
C11_Witness ==
    /\ ret.op = "last_error" /\ ret.kind = "some"
    /\ ret.e \in Errors /\ err = ret.e
    /\ used = {"next"} /\ Len(out) > 0

\* C12: read has two branches.  With i < len it copies
\* min(buf.len(), len - i) bytes of buffer[i ..], advances i by that count,
\* returns it and reads nothing from the source.  Otherwise it makes one
\* source read into buf, returns its result unmodified and leaves buffer, i
\* and len unchanged.
C12_ReadTwoBranches ==
    [][ret'.op = "read"
           => IF i < len
                 THEN /\ ret'.kind = "ok"
                      /\ ret'.n = Min(ret'.cap, len - i)
                      /\ ret'.bytes = SubSeq(buffer, i + 1, i + ret'.n)
                      /\ i' = i + ret'.n
                      /\ ret'.src = NoRead
                      /\ UNCHANGED <<reader, buffer, len, err>>
                 ELSE /\ ret'.src # NoRead
                      /\ ret'.kind = ret'.src.kind
                      /\ ret'.n = ret'.src.n
                      /\ ret'.e = ret'.src.e
                      /\ ret'.bytes
                            = SubSeq(reader.data, reader.pos + 1, reader'.pos)
                      /\ UNCHANGED <<buffer, i, len, err>>]_vars

\* read has copied part of what the iterator left in the buffer: fewer bytes
\* than were unread, because buf was shorter.
C12_Witness ==
    /\ ret.op = "read" /\ ret.kind = "ok" /\ ret.src = NoRead
    /\ ret.n = ret.cap /\ ret.n > 0
    /\ i < len /\ i = ret.lo + ret.n

\* C13: next, read and fill_buf read the source when and only when the
\* buffer is exhausted (i >= len), and then once; new, last_error,
\* take_last_error and consume never read it.
C13_OneSourceReadWhenExhausted ==
    [][/\ ret'.op \in {"next", "read", "fill_buf"}
           => /\ (ret'.src # NoRead) <=> (i >= len)
              /\ ret'.src = NoRead => reader' = reader
              /\ ret'.src # NoRead => reader'.pos = reader.pos + ret'.src.n
       /\ ret'.op \in {"new", "last_error", "take_last_error", "consume"}
           => (ret'.src = NoRead /\ reader' = reader)]_vars

\* fill_buf has found unread bytes left by the iterator and returned a view
\* without reading the source.
C13_Witness ==
    /\ ret.op = "fill_buf" /\ ret.kind = "ok" /\ ret.src = NoRead
    /\ reader.pos < Len(reader.data)
    /\ "next" \in used

\* C14: a next that finds the buffer exhausted leaves i and len unchanged
\* when its source read fails or returns 0 bytes; when the read returns
\* n > 0 it sets len = n and i = 1 and returns buffer[0], the first byte
\* read.
C14_NextRefill ==
    [][(ret'.op = "next" /\ i >= len)
           => IF ret'.src.kind = "err" \/ ret'.src.n = 0
                 THEN /\ i' = i /\ len' = len
                      /\ ret'.kind = "none"
                 ELSE /\ len' = ret'.src.n /\ i' = 1
                      /\ ret'.kind = "some"
                      /\ ret'.bytes = <<buffer'[1]>>
                      /\ buffer'[1] = reader.data[reader.pos + 1]]_vars

\* A second refill by next: the call found i = len > 0 and set i = 1.
C14_Witness ==
    /\ ret.op = "next" /\ ret.kind = "some" /\ ret.src.kind = "ok"
    /\ i = 1 /\ len = ret.src.n
    /\ used = {"next"} /\ Len(out) > BUFFER_SIZE

\* C15 (as claimed): while i < len, fill_buf reads nothing from the source,
\* changes no field and returns a view, the same one as the fill_buf right
\* before it.
C15_FillBufIdempotent ==
    [][(i < len /\ ret'.op = "fill_buf")
           => /\ ret'.kind = "ok"
              /\ ret'.src = NoRead
              /\ UNCHANGED <<reader, err, buffer, len, i>>
              /\ (ret.op = "fill_buf" /\ ret.kind = "ok")
                     => (ret'.lo = ret.lo /\ ret'.n = ret.n
                         /\ ret'.bytes = ret.bytes)]_vars

\* C16 (as claimed): fill_buf never slices outside the buffer, so it never
\* panics.
C16_FillBufInBounds == ~(ret.op = "fill_buf" /\ ret.kind = "panic")

\* C17: over a source that never fails, with next and read interleaved, the
\* bytes yielded and returned, in call order, are a prefix of the source's
\* sequence: a read with bytes left by the iterator takes them from the
\* buffer, and a next on an exhausted buffer continues with the source's
\* following bytes.
C17_NextAndReadPrefix ==
    (used \subseteq {"next", "read"} /\ ~srcFailed) =>
        /\ IsPrefix(out, reader.data)
        /\ Len(out) = reader.pos - (IF i < len THEN len - i ELSE 0)
        /\ (ret.op \in {"next", "read"} /\ ret.n > 0
               => ret.bytes = SubSeq(reader.data, Len(out) - ret.n + 1, Len(out)))

\* After bytes were taken by both next and read, a read drained the bytes
\* the iterator had buffered and the whole sequence has been delivered.
C17_Witness ==
    /\ used = {"next", "read"} /\ ~srcFailed
    /\ ret.op = "read" /\ ret.src = NoRead /\ ret.n > 0 /\ ret.lo > 0
    /\ Len(reader.data) = MaxLen
    /\ out = reader.data

\* C18: a successful fill_buf returns an empty view exactly when the call
\* made a source read that returned 0 bytes; a call that finds unread data
\* returns a non-empty view.
C18_EmptyViewIffEndOfStream ==
    (ret.op = "fill_buf" /\ ret.kind = "ok") =>
        /\ (ret.n = 0) <=> (ret.src.kind = "ok" /\ ret.src.n = 0)
        /\ Len(ret.bytes) = ret.n
        /\ ret.src = NoRead => ret.n > 0

\* fill_buf reports the end of the stream after an iteration that left
\* i = len > 0 behind.
C18_Witness ==
    /\ ret.op = "fill_buf" /\ ret.kind = "ok" /\ ret.n = 0
    /\ ret.src.kind = "ok" /\ ret.lo = 0
    /\ used = {"next", "fill_buf"}
    /\ out = reader.data /\ Len(out) > 0
    /\ len = 0 /\ i = 0
====
